---- MODULE Spec2Model ----
(***************************************************************************)
(* codelab_adapter_client: the MessageNode / AdapterNode runtime.          *)
(*                                                                         *)
(* One node, its two channels, the receive loop running on its own         *)
(* context, and the caller's context issuing publish / subscribe /         *)
(* add_handler / terminate.  The broker is the environment: it puts        *)
(* two-frame messages on the inbound channel.                              *)
(***************************************************************************)
EXTENDS Naturals, Integers, Sequences, FiniteSets, TLC

(***************************************************************************)
(* Bounds of the model.                                                    *)
(***************************************************************************)
MaxMsgs == 2        \* messages the broker delivers in one behaviour
MaxOps == 2         \* publish / subscribe calls of the caller
MaxTerminate == 2   \* terminate() calls of the caller
MaxHandlers == 3    \* add_handler calls of the caller
MaxTicks == 2       \* advances of the clock the token bucket reads
MaxCalls == 3       \* consume calls and token reads on the bucket

(***************************************************************************)
(* Module constants of the package.                                        *)
(***************************************************************************)
ADAPTER_TOPIC == "from_adapter/extensions"
SCRATCH_TOPIC == "from_scratch/extensions"
NOTIFICATION_TOPIC == "notification"
EXTENSIONS_OPERATE_TOPIC == "adapter_core/extensions/operate"
EXTENSION_ID == "eim"
message_types == <<"notification", "from_scratch", "from_adapter", "current_extension">>

(***************************************************************************)
(* Python values.  A dict is a set of <<key, value>> pairs with at most    *)
(* one pair per key; dict.get(k) of a missing key is None.  An argument    *)
(* whose type matters is a record [type, val].                             *)
(***************************************************************************)
PyNone == "<None>"

Get(d, k) == IF \E kv \in d : kv[1] = k
             THEN (CHOOSE kv \in d : kv[1] = k)[2]
             ELSE PyNone

Put(d, k, v) == {kv \in d : kv[1] # k} \cup {<<k, v>>}

\* truth value of a str-or-None
Truthy(v) == v # PyNone /\ v # ""

PyStr(s) == [type |-> "str", val |-> s]
PyInt(n) == [type |-> "int", val |-> n]
NoneV == [type |-> "NoneType", val |-> PyNone]

\* truth value of a typed argument
TruthyV(a) == CASE a.type = "str" -> a.val # ""
                [] a.type = "int" -> a.val # "0"
                [] OTHER -> FALSE

(***************************************************************************)
(* Envelope codec: msgpack.packb / msgpack.unpackb.  A frame is either the *)
(* encoding of an object or bytes that are no encoding of anything.        *)
(***************************************************************************)
packb(obj) == [fmt |-> "msgpack", obj |-> obj]
Garbage == [fmt |-> "garbage", obj |-> {}]
CanUnpack(frame) == frame.fmt = "msgpack"
unpackb(frame) == frame.obj

(***************************************************************************)
(* The inputs the environment and the caller draw from.                    *)
(***************************************************************************)
InPayloads == {{}} \cup {{<<"extension_id", i>>} : i \in {"eim", "other"}}
InMessages ==
    [topic : {SCRATCH_TOPIC, EXTENSIONS_OPERATE_TOPIC}, body : {packb(p) : p \in InPayloads}]
    \cup [topic : {SCRATCH_TOPIC}, body : {Garbage}]

VARIABLES
    running,        \* self._running
    pubOpen,        \* self.publisher is open
    subOpen,        \* self.subscriber is open
    ctxOpen,        \* self.context is not terminated
    subscriptions,  \* topic filters registered on self.subscriber
    inbound,        \* messages queued on the inbound channel
    delivered,      \* number of messages the broker has delivered
    loop,           \* position of receive_loop
    loopErr,        \* the exception that left receive_loop, if any
    intrIdle,       \* a KeyboardInterrupt was caught in the idle phase
    sinceRecv,      \* the last receive attempt's outcome, then the idle-hook calls and sleeps since
    handled,        \* message_handle calls so far: topic, payload, callables invoked
    cpc,            \* position of clean_up on each context
    nTerminate,     \* terminate() calls so far
    extProc,        \* an external_message_processor was supplied
    idleHook,       \* a receive_loop_idle_addition was supplied
    handlers,       \* self._handlers
    nHandlers,      \* add_handler calls so far
    wire,           \* messages sent on the outbound channel
    nOps,           \* publish / subscribe calls so far
    lastOp,         \* the latest call of the caller and how it ended
    regLog,         \* the add_handler calls that registered a handler, in order
    arrived,        \* every message the broker has delivered, in order
    bucket,         \* a TokenBucket: capacity, _tokens, fill_rate, timestamp
    now,            \* time.time()
    nTicks,         \* advances of the clock so far
    nCalls,         \* consume calls and tokens reads so far
    lastCall,       \* the latest call on the bucket and what it returned
    lastCheck       \* the time of the latest consume or read

vars == <<running, pubOpen, subOpen, ctxOpen, subscriptions, inbound, delivered,
          loop, loopErr, intrIdle, sinceRecv, handled, cpc, nTerminate,
          extProc, idleHook, handlers, nHandlers, wire, nOps, lastOp, regLog,
          arrived, bucket, now, nTicks, nCalls, lastCall, lastCheck>>

chanVars == <<pubOpen, subOpen, ctxOpen>>
loopVars == <<loop, loopErr, intrIdle, sinceRecv, handled>>
apiVars == <<handlers, nHandlers, wire, nOps, lastOp>>
cfgVars == <<extProc, idleHook>>
bucketVars == <<bucket, now, nTicks, nCalls, lastCall, lastCheck>>
auxVars == <<bucketVars, arrived, regLog>>
nodeVars == <<running, chanVars, subscriptions, inbound, delivered, loopVars, cpc,
              nTerminate, cfgVars, apiVars, arrived, regLog>>

Contexts == {"caller", "loop"}
NoOp == [op |-> "none", args |-> <<>>, result |-> "none"]

(***************************************************************************)
(* MessageNode.__init__ followed by AdapterNode.__init__: the flag is set, *)
(* both sockets are connected, the default subscriber_list is subscribed,  *)
(* and every message class has an empty handler list.                      *)
(***************************************************************************)
NoBucket == [capacity |-> 0, tokens |-> 0, fill_rate |-> [num |-> 0, den |-> 1], timestamp |-> 0]
NoCall == [op |-> "none", n |-> 0, result |-> FALSE, credited |-> 0, elapsed |-> 0]

NodeInit ==
    /\ running = TRUE
    /\ pubOpen = TRUE /\ subOpen = TRUE /\ ctxOpen = TRUE
    /\ subscriptions = {SCRATCH_TOPIC, EXTENSIONS_OPERATE_TOPIC}
    /\ inbound = <<>>
    /\ delivered = 0
    /\ loop = "init"
    /\ loopErr = "none"
    /\ intrIdle = FALSE
    /\ sinceRecv = <<>>
    /\ handled = <<>>
    /\ cpc = [c \in Contexts |-> "none"]
    /\ nTerminate = 0
    /\ extProc \in BOOLEAN
    /\ idleHook \in BOOLEAN
    /\ handlers = [k \in {message_types[i] : i \in 1..Len(message_types)} \cup {"all"} |-> <<>>]
    /\ nHandlers = 0
    /\ wire = <<>>
    /\ nOps = 0
    /\ lastOp = NoOp
    /\ regLog = <<>>
    /\ arrived = <<>>

\* a node, and no TokenBucket
Init ==
    /\ NodeInit
    /\ bucket = NoBucket
    /\ now = 0 /\ nTicks = 0 /\ nCalls = 0
    /\ lastCall = NoCall
    /\ lastCheck = 0

(***************************************************************************)
(* The subscriber's topic filter (zmq.SUBSCRIBE): a message passes when a  *)
(* registered filter is a prefix of its topic.  Over the topics of this    *)
(* model the prefixes are the empty filter, the topic itself, and the      *)
(* outbound default for its notification sub-topic.                        *)
(***************************************************************************)
TopicPrefix(f, t) ==
    \/ f = ""
    \/ f = t
    \/ f = ADAPTER_TOPIC /\ t = "from_adapter/extensions/notification"

Subscribed(t) == \E f \in subscriptions : TopicPrefix(f, t)

(***************************************************************************)
(* The broker delivers a message to the inbound channel.                   *)
(***************************************************************************)
Deliver(m) ==
    /\ delivered < MaxMsgs
    /\ subOpen
    /\ Subscribed(m.topic)
    /\ inbound' = Append(inbound, m)
    /\ arrived' = Append(arrived, m)
    /\ delivered' = delivered + 1
    /\ UNCHANGED <<running, chanVars, subscriptions, loopVars, cpc, nTerminate,
                   cfgVars, bucketVars, regLog, apiVars>>

(***************************************************************************)
(* AdapterNode.get_extension_id and AdapterNode.message_handle: the        *)
(* callables one dispatched message invokes, in call order.                *)
(***************************************************************************)
get_extension_id == EXTENSION_ID

\* faulty variant: the identity check of the authoring-tool branch is missing
message_handle_NoIdentity(topic, payload) ==
    (IF topic = SCRATCH_TOPIC
     THEN <<"extension_message_handle">> ELSE <<>>)
    \o (IF topic = EXTENSIONS_OPERATE_TOPIC /\ Get(payload, "extension_id") = get_extension_id
        THEN <<"exit_message_handle">> ELSE <<>>)
    \o (IF extProc THEN <<"external_message_processor">> ELSE <<>>)

\* faulty variant: the lifecycle branch tests the authoring-tool topic
message_handle_ExitTopic(topic, payload) ==
    (IF topic = SCRATCH_TOPIC /\ Get(payload, "extension_id") = get_extension_id
     THEN <<"extension_message_handle">> ELSE <<>>)
    \o (IF topic = SCRATCH_TOPIC /\ Get(payload, "extension_id") = get_extension_id
        THEN <<"exit_message_handle">> ELSE <<>>)
    \o (IF extProc THEN <<"external_message_processor">> ELSE <<>>)

\* faulty variant: the external processor is an else branch of the two topic checks
message_handle_ExtElse(topic, payload) ==
    IF topic = SCRATCH_TOPIC /\ Get(payload, "extension_id") = get_extension_id
    THEN <<"extension_message_handle">>
    ELSE IF topic = EXTENSIONS_OPERATE_TOPIC /\ Get(payload, "extension_id") = get_extension_id
    THEN <<"exit_message_handle">>
    ELSE IF extProc THEN <<"external_message_processor">> ELSE <<>>

message_handle(topic, payload) ==
    (IF topic = SCRATCH_TOPIC /\ Get(payload, "extension_id") = get_extension_id
     THEN <<"extension_message_handle">> ELSE <<>>)
    \o (IF topic = EXTENSIONS_OPERATE_TOPIC /\ Get(payload, "extension_id") = get_extension_id
        THEN <<"exit_message_handle">> ELSE <<>>)
    \o (IF extProc THEN <<"external_message_processor">> ELSE <<>>)

(***************************************************************************)
(* MessageNode.receive_loop, one action per position.                      *)
(***************************************************************************)
ReceiveLoopStart ==
    /\ loop = "init"
    /\ loop' = "check"
    /\ UNCHANGED <<running, chanVars, subscriptions, inbound, delivered, loopErr,
                   intrIdle, sinceRecv, handled, cpc, nTerminate, cfgVars, auxVars, apiVars>>

\* faulty variant: while True
LoopCheck_NoFlag ==
    /\ loop = "check"
    /\ loop' = "recv"
    /\ UNCHANGED <<running, chanVars, subscriptions, inbound, delivered, loopErr,
                   intrIdle, sinceRecv, handled, cpc, nTerminate, cfgVars, auxVars, apiVars>>

\* while self._running:
LoopCheck ==
    /\ loop = "check"
    /\ loop' = IF running THEN "recv" ELSE "exited"
    /\ UNCHANGED <<running, chanVars, subscriptions, inbound, delivered, loopErr,
                   intrIdle, sinceRecv, handled, cpc, nTerminate, cfgVars, auxVars, apiVars>>

\* faulty variant: the idle branch is taken after every receive attempt
LoopRecv_AlwaysIdle ==
    /\ loop = "recv"
    /\ IF ~subOpen
       THEN /\ loop' = "raised"
            /\ loopErr' = "ZMQError"
            /\ sinceRecv' = <<"error">>
            /\ UNCHANGED <<inbound, handled>>
       ELSE IF inbound = <<>>
       THEN /\ loop' = "idle"
            /\ sinceRecv' = <<"empty">>
            /\ UNCHANGED <<inbound, handled, loopErr>>
       ELSE LET m == Head(inbound) IN
            /\ inbound' = Tail(inbound)
            /\ IF CanUnpack(m.body)
               THEN /\ handled' = Append(handled,
                           [topic |-> m.topic, payload |-> unpackb(m.body),
                            calls |-> message_handle(m.topic, unpackb(m.body))])
                    /\ loop' = "idle"
                    /\ sinceRecv' = <<"message">>
                    /\ UNCHANGED loopErr
               ELSE /\ loop' = "raised"
                    /\ loopErr' = "UnpackException"
                    /\ sinceRecv' = <<"error">>
                    /\ UNCHANGED handled
    /\ UNCHANGED <<running, chanVars, subscriptions, delivered, intrIdle, cpc,
                   nTerminate, cfgVars, auxVars, apiVars>>

\* faulty variant: the newest queued message is taken first
LoopRecv_Newest ==
    /\ loop = "recv"
    /\ IF ~subOpen
       THEN /\ loop' = "raised"
            /\ loopErr' = "ZMQError"
            /\ sinceRecv' = <<"error">>
            /\ UNCHANGED <<inbound, handled>>
       ELSE IF inbound = <<>>
       THEN /\ loop' = "idle"
            /\ sinceRecv' = <<"empty">>
            /\ UNCHANGED <<inbound, handled, loopErr>>
       ELSE LET m == inbound[Len(inbound)] IN
            /\ inbound' = SubSeq(inbound, 1, Len(inbound) - 1)
            /\ IF CanUnpack(m.body)
               THEN /\ handled' = Append(handled,
                           [topic |-> m.topic, payload |-> unpackb(m.body),
                            calls |-> message_handle(m.topic, unpackb(m.body))])
                    /\ loop' = "check"
                    /\ sinceRecv' = <<"message">>
                    /\ UNCHANGED loopErr
               ELSE /\ loop' = "raised"
                    /\ loopErr' = "UnpackException"
                    /\ sinceRecv' = <<"error">>
                    /\ UNCHANGED handled
    /\ UNCHANGED <<running, chanVars, subscriptions, delivered, intrIdle, cpc,
                   nTerminate, cfgVars, auxVars, apiVars>>

\* the try body: recv_multipart(NOBLOCK), decode, unpackb, message_handle;
\* sinceRecv restarts with what the receive attempt found
LoopRecv ==
    /\ loop = "recv"
    /\ IF ~subOpen
       THEN /\ loop' = "raised"
            /\ loopErr' = "ZMQError"
            /\ sinceRecv' = <<"error">>
            /\ UNCHANGED <<inbound, handled>>
       ELSE IF inbound = <<>>
       THEN /\ loop' = "idle"
            /\ sinceRecv' = <<"empty">>
            /\ UNCHANGED <<inbound, handled, loopErr>>
       ELSE LET m == Head(inbound) IN
            /\ inbound' = Tail(inbound)
            /\ IF CanUnpack(m.body)
               THEN /\ handled' = Append(handled,
                           [topic |-> m.topic, payload |-> unpackb(m.body),
                            calls |-> message_handle(m.topic, unpackb(m.body))])
                    /\ loop' = "check"
                    /\ sinceRecv' = <<"message">>
                    /\ UNCHANGED loopErr
               ELSE /\ loop' = "raised"
                    /\ loopErr' = "UnpackException"
                    /\ sinceRecv' = <<"error">>
                    /\ UNCHANGED handled
    /\ UNCHANGED <<running, chanVars, subscriptions, delivered, intrIdle, cpc,
                   nTerminate, cfgVars, auxVars, apiVars>>

\* except zmq.error.Again: the idle hook, when one was supplied
LoopIdle ==
    /\ loop = "idle"
    /\ loop' = "sleep"
    /\ sinceRecv' = IF idleHook THEN Append(sinceRecv, "hook") ELSE sinceRecv
    /\ UNCHANGED <<running, chanVars, subscriptions, inbound, delivered, loopErr,
                   intrIdle, handled, cpc, nTerminate, cfgVars, auxVars, apiVars>>

\* time.sleep(self.loop_time)
LoopSleep ==
    /\ loop = "sleep"
    /\ loop' = "check"
    /\ sinceRecv' = Append(sinceRecv, "sleep")
    /\ UNCHANGED <<running, chanVars, subscriptions, inbound, delivered, loopErr,
                   intrIdle, handled, cpc, nTerminate, cfgVars, auxVars, apiVars>>

(***************************************************************************)
(* MessageNode.clean_up, statement by statement, on context c.             *)
(***************************************************************************)
\* faulty variant: the flag is toggled instead of cleared
CleanUpFlag_Toggle(c) ==
    /\ running' = ~running
    /\ cpc' = [cpc EXCEPT ![c] = "flag"]

\* self._running = False
CleanUpFlag(c) ==
    /\ running' = FALSE
    /\ cpc' = [cpc EXCEPT ![c] = "flag"]

\* faulty variant: the publisher is left open
CleanUpPub_Skip(c) ==
    /\ cpc[c] = "flag"
    /\ cpc' = [cpc EXCEPT ![c] = "pub"]
    /\ UNCHANGED <<running, chanVars, subscriptions, inbound, delivered,
                   loopVars, nTerminate, cfgVars, auxVars, apiVars>>

\* time.sleep(0.1); self.publisher.close()
CleanUpPub(c) ==
    /\ cpc[c] = "flag"
    /\ pubOpen' = FALSE
    /\ cpc' = [cpc EXCEPT ![c] = "pub"]
    /\ UNCHANGED <<running, subOpen, ctxOpen, subscriptions, inbound, delivered,
                   loopVars, nTerminate, cfgVars, auxVars, apiVars>>

\* faulty variant: the subscriber is left open
CleanUpSub_Skip(c) ==
    /\ cpc[c] = "pub"
    /\ cpc' = [cpc EXCEPT ![c] = "sub"]
    /\ UNCHANGED <<running, chanVars, subscriptions, inbound, delivered,
                   loopVars, nTerminate, cfgVars, auxVars, apiVars>>

\* self.subscriber.close()
CleanUpSub(c) ==
    /\ cpc[c] = "pub"
    /\ subOpen' = FALSE
    /\ cpc' = [cpc EXCEPT ![c] = "sub"]
    /\ UNCHANGED <<running, pubOpen, ctxOpen, subscriptions, inbound, delivered,
                   loopVars, nTerminate, cfgVars, auxVars, apiVars>>

\* self.context.term(); on the loop's context the handler then re-raises
CleanUpTerm(c) ==
    /\ cpc[c] = "sub"
    /\ ctxOpen' = FALSE
    /\ cpc' = [cpc EXCEPT ![c] = "done"]
    /\ IF c = "loop"
       THEN loop' = "raised" /\ loopErr' = "KeyboardInterrupt"
       ELSE UNCHANGED <<loop, loopErr>>
    /\ UNCHANGED <<running, pubOpen, subOpen, subscriptions, inbound, delivered,
                   intrIdle, sinceRecv, handled, nTerminate, cfgVars, auxVars, apiVars>>

(***************************************************************************)
(* AdapterNode.terminate, called on the caller's context.                  *)
(***************************************************************************)
Terminate ==
    /\ cpc["caller"] \in {"none", "done"}
    /\ nTerminate < MaxTerminate
    /\ nTerminate' = nTerminate + 1
    /\ CleanUpFlag("caller")
    /\ UNCHANGED <<chanVars, subscriptions, inbound, delivered, loopVars, cfgVars, auxVars,
                   apiVars>>

(***************************************************************************)
(* KeyboardInterrupt on the loop's context.  Inside the inner try (idle    *)
(* hook, sleep) it is caught and clean_up runs; anywhere else in the loop  *)
(* nothing catches it.                                                     *)
(***************************************************************************)
InterruptIdle ==
    /\ loop \in {"idle", "sleep"}
    /\ loop' = "cleanup"
    /\ intrIdle' = TRUE
    /\ CleanUpFlag("loop")
    /\ UNCHANGED <<chanVars, subscriptions, inbound, delivered, loopErr, sinceRecv,
                   handled, nTerminate, cfgVars, auxVars, apiVars>>

InterruptBusy ==
    /\ loop \in {"check", "recv"}
    /\ loop' = "raised"
    /\ loopErr' = "KeyboardInterrupt"
    /\ UNCHANGED <<running, chanVars, subscriptions, inbound, delivered, intrIdle,
                   sinceRecv, handled, cpc, nTerminate, cfgVars, auxVars, apiVars>>

(***************************************************************************)
(* MessageNode.publish_payload: the type check, the encoding, the send.    *)
(* A send on the closed publisher raises and puts nothing on the wire.     *)
(***************************************************************************)
PublishPayloadResult(topic) ==
    IF topic.type # "str" THEN "TypeError"
    ELSE IF ~pubOpen THEN "ZMQError"
    ELSE "ok"

publish_payload(op, args, payload, topic) ==
    /\ nOps < MaxOps
    /\ nOps' = nOps + 1
    /\ lastOp' = [op |-> op, args |-> args, result |-> PublishPayloadResult(topic)]
    /\ wire' = IF PublishPayloadResult(topic) = "ok"
               THEN Append(wire, [topic |-> topic.val, body |-> packb(payload)])
               ELSE wire
    /\ UNCHANGED <<running, chanVars, subscriptions, inbound, delivered, loopVars,
                   cpc, nTerminate, cfgVars, auxVars, handlers, nHandlers>>

PublishPayload(payload, topic) ==
    publish_payload("publish_payload", <<payload, topic>>, payload, topic)

(***************************************************************************)
(* AdapterNode.publish: the default topic, the identity stamp, the send.   *)
(***************************************************************************)
PublishTopic(message) ==
    IF TruthyV(message.topic) THEN message.topic ELSE PyStr(ADAPTER_TOPIC)

\* faulty variant: the stamp overwrites whatever identity the payload has
PublishStamp_Always(payload) == Put(payload, "extension_id", get_extension_id)

PublishStamp(payload) ==
    IF Truthy(Get(payload, "extension_id"))
    THEN payload
    ELSE Put(payload, "extension_id", get_extension_id)

Publish(message) ==
    publish_payload("publish", <<message.payload, message.topic>>,
                    PublishStamp(message.payload), PublishTopic(message))

(***************************************************************************)
(* AdapterNode.pub_notification and AdapterNode.pub_status: the payload is *)
(* built and handed to publish_payload.                                    *)
(***************************************************************************)
PubNotification(content, topic, type) ==
    publish_payload("pub_notification", <<content, topic, type>>,
                    {<<"type", type>>, <<"extension_id", get_extension_id>>,
                     <<"content", content>>},
                    topic)

PubStatus(statu) ==
    publish_payload("pub_status", <<statu>>,
                    {<<"extension_id", get_extension_id>>, <<"content", statu>>},
                    PyStr("from_adapter/extensions/status"))

(***************************************************************************)
(* MessageNode.set_subscriber_topic.                                       *)
(***************************************************************************)
\* faulty variant: the type check is missing
SetSubscriberResult_NoCheck(topic) == IF ~subOpen THEN "ZMQError" ELSE "ok"

SetSubscriberResult(topic) ==
    IF topic.type # "str" THEN "TypeError"
    ELSE IF ~subOpen THEN "ZMQError"
    ELSE "ok"

SetSubscriberTopic(topic) ==
    /\ nOps < MaxOps
    /\ nOps' = nOps + 1
    /\ lastOp' = [op |-> "set_subscriber_topic", args |-> <<topic>>,
                  result |-> SetSubscriberResult(topic)]
    /\ subscriptions' = IF SetSubscriberResult(topic) = "ok"
                        THEN subscriptions \cup {topic.val}
                        ELSE subscriptions
    /\ UNCHANGED <<running, chanVars, inbound, delivered, loopVars, cpc, nTerminate,
                   cfgVars, auxVars, handlers, nHandlers, wire>>

(***************************************************************************)
(* AdapterNode.add_handler and AdapterNode.get_handlers.  A handler is a   *)
(* record [callable, name]; the registry keeps the names.                  *)
(***************************************************************************)
\* faulty variant: the handler is not checked for being callable
AddHandlerResult_NoCallableCheck(func, type) ==
    IF type \notin DOMAIN handlers THEN "KeyError" ELSE "ok"

AddHandlerResult(func, type) ==
    IF ~func.callable THEN "ValueError"
    ELSE IF type \notin DOMAIN handlers THEN "KeyError"
    ELSE "ok"

AddHandler(func, type) ==
    /\ nHandlers < MaxHandlers
    /\ nHandlers' = nHandlers + 1
    /\ lastOp' = [op |-> "add_handler", args |-> <<func, type>>,
                  result |-> AddHandlerResult(func, type)]
    /\ handlers' = IF AddHandlerResult(func, type) = "ok"
                   THEN [handlers EXCEPT ![type] = Append(@, func.name)]
                   ELSE handlers
    /\ regLog' = IF AddHandlerResult(func, type) = "ok"
                 THEN Append(regLog, <<func.name, type>>)
                 ELSE regLog
    /\ UNCHANGED <<running, chanVars, subscriptions, inbound, delivered, loopVars,
                   cpc, nTerminate, cfgVars, bucketVars, arrived, wire, nOps>>

\* faulty variant: the catch-all handlers come first
get_handlers_AllFirst(type) ==
    handlers["all"] \o (IF type \in DOMAIN handlers THEN handlers[type] ELSE <<>>)

get_handlers(type) ==
    (IF type \in DOMAIN handlers THEN handlers[type] ELSE <<>>) \o handlers["all"]

\* a call of get_handlers: the list it returns; the registry is only read
GetHandlers(type) ==
    /\ lastOp' = [op |-> "get_handlers", args |-> <<type>>, result |-> get_handlers(type)]
    /\ UNCHANGED <<running, chanVars, subscriptions, inbound, delivered, loopVars,
                   cpc, nTerminate, cfgVars, auxVars, handlers, nHandlers, wire, nOps>>

(***************************************************************************)
(* What the caller passes.                                                 *)
(***************************************************************************)
ApiTopics == {NoneV, PyStr(""), PyStr(ADAPTER_TOPIC), PyInt("42")}
OutPayloads == {{<<"content", "hello">>} \cup i :
                  i \in {{}, {<<"extension_id", "">>}, {<<"extension_id", "other">>}}}
PubMessages == [topic : ApiTopics, payload : OutPayloads]
Funcs == [callable : {TRUE}, name : {"h1", "h2", "h3"}]
            \cup {[callable |-> FALSE, name |-> "42"]}
ClassKeys == {"from_scratch", "all", "no_such_class"}
Severities == {"INFO", "ERROR"}

FewMessages == {[topic |-> SCRATCH_TOPIC, body |-> packb({<<"extension_id", "eim">>})],
                [topic |-> EXTENSIONS_OPERATE_TOPIC, body |-> packb({<<"extension_id", "other">>})]}
OneMessage == {[topic |-> SCRATCH_TOPIC, body |-> packb({<<"extension_id", "eim">>})]}
FewFuncs == [callable : {TRUE}, name : {"h1"}]

(***************************************************************************)
(* Specifications.                                                         *)
(***************************************************************************)
LoopStep == ReceiveLoopStart \/ LoopCheck \/ LoopRecv \/ LoopIdle \/ LoopSleep
CleanUpStep == \E c \in Contexts : CleanUpPub(c) \/ CleanUpSub(c) \/ CleanUpTerm(c)

\* the receive loop, the broker, termination and interrupts
Next ==
    \/ \E m \in InMessages : Deliver(m)
    \/ LoopStep
    \/ Terminate
    \/ CleanUpStep
    \/ InterruptIdle
    \/ InterruptBusy

Spec == Init /\ [][Next]_vars

\* the same over one kind of message, with the scheduling the loop's thread
\* and a running clean_up have: each keeps taking its next step
NextFair ==
    \/ \E m \in OneMessage : Deliver(m)
    \/ LoopStep
    \/ Terminate
    \/ CleanUpStep
    \/ InterruptIdle
    \/ InterruptBusy

FairSpec == Init /\ [][NextFair]_vars /\ WF_vars(LoopStep) /\ WF_vars(CleanUpStep)

\* the caller's publish and subscribe calls, before and after termination
NextApi ==
    \/ \E message \in PubMessages : Publish(message)
    \/ \E payload \in OutPayloads, topic \in ApiTopics : PublishPayload(payload, topic)
    \/ \E topic \in ApiTopics : SetSubscriberTopic(topic)
    \/ \E type \in Severities : PubNotification("hello", PyStr(NOTIFICATION_TOPIC), type)
    \/ PubStatus("ready")
    \/ Terminate
    \/ CleanUpStep

SpecApi == Init /\ [][NextApi]_vars

\* the handler registry alone: registrations and look-ups
NextRegistry ==
    \/ \E func \in Funcs, type \in ClassKeys : AddHandler(func, type)
    \/ \E type \in ClassKeys : GetHandlers(type)

SpecRegistry == Init /\ [][NextRegistry]_vars

\* the handler registry and the dispatch of delivered messages
NextDispatch ==
    \/ \E func \in Funcs, type \in ClassKeys : AddHandler(func, type)
    \/ \E m \in FewMessages : Deliver(m)
    \/ LoopStep

SpecDispatch == Init /\ [][NextDispatch]_vars

\* every operation of the node over a few inputs; the caller's calls share
\* one budget
CallerStep ==
    \/ Publish([topic |-> NoneV, payload |-> {}])
    \/ SetSubscriberTopic(PyStr(ADAPTER_TOPIC))
    \/ \E func \in FewFuncs : AddHandler(func, "all")

NextLife ==
    \/ \E m \in OneMessage : Deliver(m)
    \/ LoopStep
    \/ Terminate
    \/ CleanUpStep
    \/ InterruptIdle
    \/ InterruptBusy
    \/ (nOps + nHandlers < MaxOps /\ CallerStep)

SpecLife == Init /\ [][NextLife]_vars

(***************************************************************************)
(* utils.TokenBucket.  Token counts and times are integers, on which the   *)
(* code's float arithmetic is exact; a fill rate is a fraction num/den of  *)
(* tokens per second, and the clock advances by multiples of every den, so *)
(* that fill_rate * elapsed is an integer too.                             *)
(***************************************************************************)
Min(a, b) == IF a <= b THEN a ELSE b
Times(rate, dt) == (rate.num * dt) \div rate.den

FillRates == {[num |-> 1, den |-> 2], [num |-> 1, den |-> 1]}
Amounts == {10, 90, -10}
Delays == {2, 200}

\* TokenBucket(80, fill_rate)
BucketInit ==
    /\ NodeInit
    /\ \E rate \in FillRates :
          bucket = [capacity |-> 80, tokens |-> 80, fill_rate |-> rate, timestamp |-> 0]
    /\ now = 0 /\ nTicks = 0 /\ nCalls = 0
    /\ lastCall = NoCall
    /\ lastCheck = 0

\* the bucket after get_tokens ran at time t; the value read is its tokens
get_tokens(b, t) ==
    IF b.tokens < b.capacity
    THEN [b EXCEPT !.tokens = Min(b.capacity, b.tokens + Times(b.fill_rate, t - b.timestamp)),
                   !.timestamp = t]
    ELSE b

\* faulty variant: a request too large takes what is there
consume_Partial(b, n, t) ==
    IF n <= get_tokens(b, t).tokens
    THEN [get_tokens(b, t) EXCEPT !.tokens = @ - n]
    ELSE [get_tokens(b, t) EXCEPT !.tokens = 0]

\* the bucket after consume(n) ran at time t
consume(b, n, t) ==
    IF n <= get_tokens(b, t).tokens
    THEN [get_tokens(b, t) EXCEPT !.tokens = @ - n]
    ELSE get_tokens(b, t)

\* a call of consume(n); lastCall keeps what it returned, what the lazy
\* refill credited and how long ago the bucket was last consumed from or read
Consume(n) ==
    /\ nCalls < MaxCalls
    /\ nCalls' = nCalls + 1
    /\ bucket' = consume(bucket, n, now)
    /\ lastCall' = [op |-> "consume", n |-> n,
                    result |-> n <= get_tokens(bucket, now).tokens,
                    credited |-> get_tokens(bucket, now).tokens - bucket.tokens,
                    elapsed |-> now - lastCheck]
    /\ lastCheck' = now
    /\ UNCHANGED <<nodeVars, now, nTicks>>

\* a read of the tokens property
ReadTokens ==
    /\ nCalls < MaxCalls
    /\ nCalls' = nCalls + 1
    /\ bucket' = get_tokens(bucket, now)
    /\ lastCall' = [op |-> "tokens", n |-> 0,
                    result |-> TRUE,
                    credited |-> get_tokens(bucket, now).tokens - bucket.tokens,
                    elapsed |-> now - lastCheck]
    /\ lastCheck' = now
    /\ UNCHANGED <<nodeVars, now, nTicks>>

\* time.time() has advanced by d seconds
Tick(d) ==
    /\ nTicks < MaxTicks
    /\ nTicks' = nTicks + 1
    /\ now' = now + d
    /\ UNCHANGED <<nodeVars, bucket, nCalls, lastCall, lastCheck>>

NextBucket ==
    \/ \E n \in Amounts : Consume(n)
    \/ ReadTokens
    \/ \E d \in Delays : Tick(d)

SpecBucket == BucketInit /\ [][NextBucket]_vars

(***************************************************************************)
(* Properties.                                                             *)
(***************************************************************************)
Invoked(h, f) == \E j \in 1..Len(h.calls) : h.calls[j] = f
HasKey(d, k) == \E kv \in d : kv[1] = k
Dispatched == Len(handled') = Len(handled) + 1
Called(op) == nOps' = nOps + 1 /\ lastOp'.op = op

\* C1: with [h1, h2] registered under "from_scratch" and [h3] under "all",
\* every dispatched message of class "from_scratch" invokes h1, h2, h3 in that
\* order and every dispatched message of another class invokes only h3.
C1_Claim ==
    [][(/\ Dispatched
        /\ handlers["from_scratch"] = <<"h1", "h2">>
        /\ handlers["all"] = <<"h3">>)
       => LET h == handled'[Len(handled')]
              fired == SelectSeq(h.calls, LAMBDA f : f \in {"h1", "h2", "h3"})
          IN  fired = IF h.topic = SCRATCH_TOPIC
                      THEN get_handlers("from_scratch")
                      ELSE get_handlers("no_such_class")]_vars

\* C2: a dispatched message reaches extension_message_handle exactly when its
\* topic is SCRATCH_TOPIC and its extension_id is the node's identity.
C2_Thm ==
    \A i \in 1..Len(handled) :
        Invoked(handled[i], "extension_message_handle")
        <=> (/\ handled[i].topic = SCRATCH_TOPIC
             /\ HasKey(handled[i].payload, "extension_id")
             /\ Get(handled[i].payload, "extension_id") = EXTENSION_ID)

C2_Witness ==
    \E i, j \in 1..Len(handled) :
        /\ Invoked(handled[i], "extension_message_handle")
        /\ handled[j].topic = SCRATCH_TOPIC
        /\ Get(handled[j].payload, "extension_id") = "other"
        /\ ~Invoked(handled[j], "extension_message_handle")

\* C3: a dispatched message reaches exit_message_handle exactly when its topic
\* is EXTENSIONS_OPERATE_TOPIC and its extension_id is the node's identity.
C3_Thm ==
    \A i \in 1..Len(handled) :
        Invoked(handled[i], "exit_message_handle")
        <=> (/\ handled[i].topic = EXTENSIONS_OPERATE_TOPIC
             /\ HasKey(handled[i].payload, "extension_id")
             /\ Get(handled[i].payload, "extension_id") = EXTENSION_ID)

C3_Witness ==
    \E i, j \in 1..Len(handled) :
        /\ Invoked(handled[i], "exit_message_handle")
        /\ handled[j].topic = SCRATCH_TOPIC
        /\ Get(handled[j].payload, "extension_id") = EXTENSION_ID
        /\ ~Invoked(handled[j], "exit_message_handle")

\* C4: with an external processor supplied, every dispatched message is passed
\* to it exactly once, as the last call made for that message.
C4_Thm ==
    extProc =>
        \A i \in 1..Len(handled) :
            LET calls == handled[i].calls IN
            /\ Len(SelectSeq(calls, LAMBDA f : f = "external_message_processor")) = 1
            /\ calls[Len(calls)] = "external_message_processor"

C4_Witness ==
    /\ extProc
    /\ \E i, j \in 1..Len(handled) :
        /\ handled[i].calls = <<"extension_message_handle", "external_message_processor">>
        /\ Get(handled[j].payload, "extension_id") = "other"
        /\ handled[j].calls = <<"external_message_processor">>

\* C5: a malformed payload on the inbound channel never ends the receive loop.
C5_Claim == ~(loop = "raised" /\ loopErr = "UnpackException")

\* C6: once terminate() has been called while the loop runs, the loop does
\* eventually leave; a check of the running flag made after the flag was
\* cleared starts no further iteration; and a loop that has left stays out.
C6_Thm ==
    /\ [][(loop = "check" /\ ~running) => loop' # "recv"]_vars
    /\ [][(loop \in {"exited", "raised"}) => loop' = loop]_vars
    /\ (cpc["caller"] # "none" /\ loop # "init") ~> (loop \in {"exited", "raised"})

C6_Witness == loop = "exited" /\ Len(handled) >= 1 /\ cpc["caller"] # "none"

\* C7: the running flag is true from construction until a clean_up begins,
\* and no operation ever takes it from false back to true.
C7_Thm ==
    /\ []((\A c \in Contexts : cpc[c] = "none") => running)
    /\ [][~running => ~running']_vars

C7_Witness ==
    /\ ~running
    /\ nTerminate >= 2
    /\ nOps >= 1
    /\ Len(handled) >= 1

\* C8 as stated: after an interrupt in the idle phase the shutdown is complete
\* and the loop has ended by returning, not by the interrupt leaving it.
C8_Claim ==
    (intrIdle /\ loop # "cleanup")
    => (~running /\ ~pubOpen /\ ~subOpen /\ ~ctxOpen /\ loop = "exited")

\* C8 as amended: after an interrupt in the idle phase the shutdown is complete
\* and the loop has ended by re-raising KeyboardInterrupt out of receive_loop.
C8_Thm ==
    (intrIdle /\ loop # "cleanup")
    => (/\ ~running /\ ~pubOpen /\ ~subOpen /\ ~ctxOpen
        /\ loop = "raised" /\ loopErr = "KeyboardInterrupt")

C8_Witness == intrIdle /\ loop = "raised" /\ cpc["caller"] = "none"

\* C9 as stated: every publish(message) puts exactly one message on the wire,
\* carrying the payload's own identity when the payload has the field and the
\* node's identity when it lacks it.
C9_Claim ==
    [][Called("publish")
       => /\ Len(wire') = Len(wire) + 1
          /\ LET given == lastOp'.args[1]
                 sent == unpackb(wire'[Len(wire')].body)
             IN  Get(sent, "extension_id") =
                     IF HasKey(given, "extension_id")
                     THEN Get(given, "extension_id")
                     ELSE EXTENSION_ID]_vars

\* C9 as amended: a publish(message) whose topic is absent, empty or a string,
\* made while the publisher is open, puts exactly one message on the wire,
\* carrying the payload's own identity when that is a non-empty string and the
\* node's identity when the field is absent or empty; any other publish raises
\* and puts nothing on the wire.
C9_Thm ==
    [][Called("publish")
       => LET given == lastOp'.args[1]
              topic == lastOp'.args[2]
          IN  IF pubOpen /\ (topic.type = "str" \/ ~TruthyV(topic))
              THEN /\ lastOp'.result = "ok"
                   /\ Len(wire') = Len(wire) + 1
                   /\ SubSeq(wire', 1, Len(wire)) = wire
                   /\ Get(unpackb(wire'[Len(wire')].body), "extension_id") =
                          IF Get(given, "extension_id") \in {PyNone, ""}
                          THEN EXTENSION_ID
                          ELSE Get(given, "extension_id")
              ELSE /\ lastOp'.result # "ok"
                   /\ wire' = wire]_vars

C9_Witness ==
    /\ lastOp.op = "publish"
    /\ lastOp.result = "ok"
    /\ Len(wire) = 2
    /\ Get(unpackb(wire[1].body), "extension_id") = "other"
    /\ Get(unpackb(wire[2].body), "extension_id") = EXTENSION_ID

\* C10: set_subscriber_topic and publish_payload with a topic that is no
\* string raise, send nothing and leave the subscription set as it was.
C10_Thm ==
    [][((Called("set_subscriber_topic") /\ lastOp'.args[1].type # "str")
        \/ (Called("publish_payload") /\ lastOp'.args[2].type # "str"))
       => /\ lastOp'.result = "TypeError"
          /\ wire' = wire
          /\ subscriptions' = subscriptions]_vars

C10_Witness ==
    /\ nOps = 2
    /\ lastOp.op = "publish_payload"
    /\ lastOp.args[2].type = "int"
    /\ lastOp.result = "TypeError"
    /\ wire = <<>>
    /\ subscriptions = {SCRATCH_TOPIC, EXTENSIONS_OPERATE_TOPIC}

(***************************************************************************)
(* The handler registry, the convenience publishers, the loop's pacing.    *)
(***************************************************************************)
Registered == nHandlers' = nHandlers + 1
KnownClasses == {message_types[i] : i \in 1..Len(message_types)} \cup {"all"}
RegisteredUnder(k) ==
    LET s == SelectSeq(regLog, LAMBDA e : e[2] = k)
    IN  [i \in 1..Len(s) |-> s[i][1]]

\* C11 as stated: add_handler with a non-callable handler fails and changes
\* no list; with a callable handler it appends the handler at the end of the
\* list of class_key, whatever class_key is, and changes no other list.
C11_Claim ==
    [][Registered =>
       LET func == lastOp'.args[1]
           type == lastOp'.args[2]
       IN  IF ~func.callable
           THEN lastOp'.result # "ok" /\ handlers' = handlers
           ELSE /\ type \in DOMAIN handlers'
                /\ handlers'[type] =
                     Append(IF type \in DOMAIN handlers THEN handlers[type] ELSE <<>>,
                            func.name)
                /\ \A k \in DOMAIN handlers : k # type => handlers'[k] = handlers[k]]_vars

\* C11: add_handler with a non-callable handler fails with ValueError and
\* changes no list; with a callable handler and a class_key of the registry
\* (a message type or "all") it appends the handler at the end of that list and
\* changes no other list; with a callable handler and any other class_key it
\* fails with KeyError and changes no list.
C11_Thm ==
    [][Registered =>
       LET func == lastOp'.args[1]
           type == lastOp'.args[2]
       IN  IF ~func.callable
           THEN lastOp'.result = "ValueError" /\ handlers' = handlers
           ELSE IF type \in KnownClasses
           THEN /\ lastOp'.result = "ok"
                /\ handlers' = [handlers EXCEPT ![type] = Append(@, func.name)]
           ELSE lastOp'.result = "KeyError" /\ handlers' = handlers]_vars

C11_Witness ==
    /\ lastOp.op = "add_handler"
    /\ lastOp.result = "KeyError"
    /\ lastOp.args[1].callable
    /\ handlers["from_scratch"] = <<"h1", "h2">>

\* C16: for every class key k other than "all", known or unknown, and after
\* any sequence of add_handler calls, get_handlers(k) is the handlers
\* registered under k in registration order followed by those registered under
\* "all" in registration order; for an unknown k it is the catch-all handlers;
\* a get_handlers call returns that list and leaves the registry as it was.
C16_Thm ==
    /\ [](\A k \in ClassKeys \ {"all"} :
            /\ get_handlers(k) = RegisteredUnder(k) \o RegisteredUnder("all")
            /\ k \notin KnownClasses => get_handlers(k) = RegisteredUnder("all"))
    /\ [][lastOp'.op = "get_handlers" /\ lastOp' # lastOp =>
            /\ handlers' = handlers
            /\ lastOp'.result = RegisteredUnder(lastOp'.args[1]) \o RegisteredUnder("all")]_vars

C16_Witness ==
    /\ lastOp.op = "get_handlers"
    /\ lastOp.args = <<"from_scratch">>
    /\ lastOp.result = <<"h2", "h1", "h3">>
    /\ regLog = <<<<"h3", "all">>, <<"h2", "from_scratch">>, <<"h1", "from_scratch">>>>

TerminateCompleted == nTerminate >= 1 /\ cpc["caller"] = "done"

\* C12: after terminate() has completed the running flag is false, and no
\* later publish, publish_payload, pub_notification or pub_status puts a
\* message on the wire: each such call is rejected.
C12_Thm ==
    /\ [](TerminateCompleted => ~running)
    /\ [][(TerminateCompleted /\ nOps' = nOps + 1
           /\ lastOp'.op \in {"publish", "publish_payload", "pub_notification", "pub_status"})
          => (wire' = wire /\ lastOp'.result # "ok")]_vars

C12_Witness ==
    /\ TerminateCompleted
    /\ lastOp.op = "pub_notification"
    /\ lastOp.result = "ZMQError"
    /\ Len(wire) = 1

\* C15: pub_notification(content) with default arguments sends exactly one
\* message, on topic "from_adapter/extensions/notification", whose payload
\* carries the node identity, a severity and the content.
C15_Claim ==
    [][(Called("pub_notification") /\ lastOp'.result = "ok"
        /\ lastOp'.args[3] = "INFO")
       => wire' = Append(wire,
                    [topic |-> "from_adapter/extensions/notification",
                     body |-> packb({<<"type", "INFO">>,
                                     <<"extension_id", EXTENSION_ID>>,
                                     <<"content", lastOp'.args[1]>>})])]_vars

EmptyIteration == IF idleHook THEN <<"empty", "hook", "sleep">> ELSE <<"empty", "sleep">>
IsPrefix(s, t) == Len(s) <= Len(t) /\ s = SubSeq(t, 1, Len(s))

\* C17: the idle hook runs and the idle sleep is taken only in iterations
\* whose receive found no message: after a dispatched message the next thing
\* the loop does is its flag check and the next receive, with no hook call and
\* no sleep; an empty iteration runs the hook, if configured, exactly once and
\* then sleeps once.
C17_Thm ==
    /\ [](\/ sinceRecv \in {<<>>, <<"message">>, <<"error">>}
          \/ IsPrefix(sinceRecv, EmptyIteration))
    /\ []((loop \in {"check", "recv", "exited"} /\ sinceRecv # <<>>
           /\ sinceRecv[1] = "empty") => sinceRecv = EmptyIteration)
    /\ [][Dispatched => (loop' = "check" /\ sinceRecv' = <<"message">>)]_vars
    /\ [][(sinceRecv' # sinceRecv /\ loop # "recv")
            => (sinceRecv # <<>> /\ sinceRecv[1] = "empty")]_vars

C17_Witness ==
    /\ idleHook
    /\ Len(handled) = 2
    /\ sinceRecv = <<"empty", "hook", "sleep">>
    /\ loop = "recv"

\* C19: with terminate() on the caller's context running concurrently with
\* the receive loop, the loop never attempts a receive on the inbound channel
\* after clean_up has closed it.
C19_Claim ==
    [][(loop = "recv" /\ loop' # "recv" /\ loopErr' # "KeyboardInterrupt") => subOpen]_vars

Consumed == SubSeq(arrived, 1, Len(arrived) - Len(inbound))
WellFormed(ms) == SelectSeq(ms, LAMBDA m : CanUnpack(m.body))

\* C20: the messages the receive loop has taken from the inbound channel are
\* the first ones that arrived, in arrival order; each decodable one was passed
\* to message_handle exactly once, in that order, its handling recorded before
\* the next receive; an undecodable one is the last the loop takes.
C20_Thm ==
    /\ [](arrived = Consumed \o inbound)
    /\ [](/\ Len(handled) = Len(WellFormed(Consumed))
          /\ \A k \in 1..Len(handled) :
                /\ handled[k].topic = WellFormed(Consumed)[k].topic
                /\ handled[k].payload = unpackb(WellFormed(Consumed)[k].body)
                /\ handled[k].calls = message_handle(handled[k].topic, handled[k].payload))
    /\ []((\E k \in 1..Len(Consumed) : ~CanUnpack(Consumed[k].body))
          => (~CanUnpack(Consumed[Len(Consumed)].body) /\ loop = "raised"))
    /\ [][Len(inbound') < Len(inbound) =>
            (inbound' = Tail(inbound) /\ loop = "recv" /\ loop' \in {"check", "raised"})]_vars

C20_Witness ==
    /\ Len(handled) = 2
    /\ handled[1].topic = EXTENSIONS_OPERATE_TOPIC
    /\ handled[2].topic = SCRATCH_TOPIC
    /\ arrived[1].topic = EXTENSIONS_OPERATE_TOPIC

(***************************************************************************)
(* The token bucket.                                                       *)
(***************************************************************************)
BucketCalled == nCalls' = nCalls + 1

\* C13: over any sequence of consume(n) calls and reads of the token count
\* under a non-decreasing clock, for every n, the token count stays within
\* [0, capacity].
C13_Claim == bucket.tokens >= 0 /\ bucket.tokens <= bucket.capacity

\* C14 as stated: consume(n) with n at most the count after the lazy refill
\* returns success and leaves that count less n; otherwise it returns failure
\* and changes nothing of the bucket.
C14_Claim ==
    [][(BucketCalled /\ lastCall'.op = "consume") =>
       IF lastCall'.n <= get_tokens(bucket, now).tokens
       THEN lastCall'.result /\ bucket'.tokens = get_tokens(bucket, now).tokens - lastCall'.n
       ELSE ~lastCall'.result /\ bucket' = bucket]_vars

\* C14: consume(n) with n at most the count after the lazy refill returns
\* success and leaves that count less n; otherwise it returns failure and
\* deducts nothing: the bucket is left as the lazy refill alone leaves it, its
\* count and timestamp refreshed when it was below capacity; capacity and fill
\* rate never change.
C14_Thm ==
    [][(BucketCalled /\ lastCall'.op = "consume") =>
       /\ bucket'.capacity = bucket.capacity
       /\ bucket'.fill_rate = bucket.fill_rate
       /\ IF lastCall'.n <= get_tokens(bucket, now).tokens
          THEN /\ lastCall'.result
               /\ bucket'.tokens = get_tokens(bucket, now).tokens - lastCall'.n
          ELSE /\ ~lastCall'.result
               /\ bucket' = get_tokens(bucket, now)
               /\ bucket'.tokens = bucket.tokens + lastCall'.credited
               /\ (bucket.tokens >= bucket.capacity => bucket' = bucket)]_vars

C14_Witness ==
    /\ lastCall.op = "consume"
    /\ lastCall.n = 90
    /\ ~lastCall.result
    /\ lastCall.credited = 1
    /\ bucket.tokens = 71
    /\ bucket.timestamp = 2

\* C18: the tokens a lazy refill credits never exceed fill_rate times the time
\* elapsed since the previous consume or read.
C18_Claim == lastCall.credited <= Times(bucket.fill_rate, lastCall.elapsed)

(***************************************************************************)
(* Multiplicity of handlers in a look-up.                                  *)
(***************************************************************************)
Occurrences(seq, x) == Cardinality({i \in 1..Len(seq) : seq[i] = x})
Registrations(h, k) ==
    Cardinality({i \in 1..Len(regLog) : regLog[i][1] = h /\ regLog[i][2] \in {k, "all"}})

\* C21: for every class key, "all" included, and after any sequence of
\* add_handler calls, each handler occurs in get_handlers(key) exactly as many
\* times as it was registered under key or under "all"; get_handlers("all")
\* lists no catch-all handler twice.
C21_Claim ==
    \A k \in ClassKeys : \A func \in Funcs :
        Occurrences(get_handlers(k), func.name) = Registrations(func.name, k)

====
